---- MODULE Spec2Model ----
(***************************************************************************)
(* Model of the downlink / uplink pipelines of fprime_gds                  *)
(* (common/communication/updown.py) and of the process that runs them      *)
(* (executables/comm.py).                                                  *)
(*                                                                         *)
(* Every stage thread is a small program counter machine.  One action is   *)
(* one atomic piece of a stage: the test of the running flag at the top of *)
(* the loop, one blocking call together with the thread-local computation  *)
(* that follows it, or one queue operation.                                *)
(***************************************************************************)
EXTENDS Integers, Sequences, FiniteSets, TLC

(***************************************************************************)
(* Bounds of the model.                                                    *)
(***************************************************************************)
\* number of bytes the wire delivers before Adapter.read only times out,
\* when the run is one with a busy wire
WireLen == 4
\* largest number of bytes one Adapter.read returns
MaxChunk == 4
\* length of the frames recognised by the deframer
FrameLen == 2
\* number of packets the ground side hands over in total, when the run is
\* one with a busy ground side
GroundLen == 2
\* number of packets the ground side hands over when the wire is the busy one
ShortGround == 1
\* largest number of packets one receive_all returns
MaxBatch == 2
\* largest number of start() calls a caller makes on one Downlinker
MaxStarts == 2
\* the capacity C of the frame queue, where the queue is given one
Capacity == 1

(***************************************************************************)
(* Program constants.                                                      *)
(***************************************************************************)
\* Uplinker.RETRY_COUNT
RETRY_COUNT == 3
\* Queue() is constructed without maxsize: queue.Queue's default, 0
QueueMaxsize == 0
\* DataDescType["FW_PACKET_HAND"].value
FW_PACKET_HAND == 254

(***************************************************************************)
(* Data.  A byte string is a sequence of numbers 0..255.  Python's None is *)
(* the one-element sequence <<-1>>, which is no byte string.               *)
(***************************************************************************)
None == <<-1>>

Min(a, b) == IF a <= b THEN a ELSE b

RECURSIVE Flatten(_)
Flatten(ss) == IF ss = <<>> THEN <<>> ELSE Head(ss) \o Flatten(Tail(ss))

\* number of bytes the wire delivers when the ground side is the busy one:
\* one frame
ShortWire == FrameLen

\* the bytes a wire of n bytes delivers, in order: byte i has the value i
Wire(n) == [i \in 1..n |-> i]

\* the i-th packet the ground side hands over, when it is a real packet
DataPacket(i) == IF i % 2 = 1 THEN <<16 + i>> ELSE <<16 + i, 32 + i>>

\* what one receive_all may return when it returns n packets and the ground
\* side has handed over k packets before: at each place None, b"" or a packet
Batches(n, k) ==
    { [i \in 1..n |->
          CASE s[i] = "none"  -> None
            [] s[i] = "empty" -> <<>>
            [] OTHER          -> DataPacket(k + i)] :
      s \in [1..n -> {"none", "empty", "data"}] }

VARIABLES
    dl_running,   \* Downlinker.running
    up_running,   \* Uplinker.running
    th_data,      \* Downlinker.th_data: position of the deframing thread
    th_ground,    \* Downlinker.th_ground: position of the sending thread
    th_uplink,    \* Uplinker.th_uplink: position of the uplink thread
    main,         \* position of main() / shutdown() of comm.py
    pool,         \* deframing: the byte pool
    d_frames,     \* deframing: frames of the current deframe_all still to put
    outgoing,     \* Downlinker.outgoing
    s_frames,     \* sending: the batch being collected
    packets,      \* uplink: filtered packets of the current batch still to do
    packet,       \* uplink: the packet being written
    framed,       \* uplink: framer.frame(packet)
    retry,        \* uplink: number of failed writes of the current packet
    wire,         \* adapter: bytes not yet returned by read
    inbox,        \* ground: number of packets still to be handed over
    allRead,      \* history: every byte Adapter.read returned
    readLog,      \* history: the non-empty results of Adapter.read
    deframed,     \* history: every frame deframe_all returned
    accepted,     \* history: every entry put into outgoing
    removed,      \* history: every entry taken out of outgoing
    sent,         \* history: every entry given to send_all, in order
    lastBatch,    \* history: the argument of the latest send_all
    recvLog,      \* history: the non-empty results of receive_all
    uplog,        \* history: frame / write / handshake / warning events
    cls,          \* the classes constructed: "base" (Downlinker, Uplinker)
                  \* or "dtn" (DtnDownlinker, DtnUplinker)
    th_dtn_deframe, \* DtnDownlinker.th_dtn_deframe: position of the thread
    th_dtn_frame, \* DtnUplinker.th_dtn_frame: position of the thread
    ionOut,       \* ION: outbound LTP segments not yet dequeued
    ionIn,        \* ION: received bundles not yet taken by bp_receive
    ltp_frame,    \* _dtn_frame: the segment being written
    f_framed,     \* _dtn_frame: framer.frame(ltp_frame)
    f_retry,      \* _dtn_frame: number of failed writes of the segment
    flog,         \* history: the writes of _dtn_frame, with their results
    maxsize,      \* Downlinker.outgoing.maxsize
    faultLog,     \* history: every OSError raised inside a stage thread
    afterStop,    \* history: calls each stage made after its stop() returned
    dropped,      \* history: entries discarded with the "queue full" warning
    grounds,      \* every sending thread start() created, in creation order
    datas,        \* every deframing thread start() created, in creation order
    phase         \* lifecycle state the calls made so far put the pipeline in

vars == << dl_running, up_running, th_data, th_ground, th_uplink, main,
           pool, d_frames, outgoing, s_frames,
           packets, packet, framed, retry, wire, inbox,
           allRead, readLog, deframed, accepted, removed, sent, lastBatch,
           recvLog, uplog, cls, th_dtn_deframe, th_dtn_frame,
           ionOut, ionIn, ltp_frame, f_framed, f_retry, flog,
           maxsize, faultLog, afterStop, dropped, grounds, datas, phase >>

dlVars   == << pool, d_frames, wire, allRead, readLog, deframed >>
sendVars == << s_frames, removed, sent, lastBatch >>
upVars   == << packets, packet, framed, retry, inbox, recvLog, uplog >>
dtnVars  == << cls, th_dtn_deframe, th_dtn_frame,
               ionOut, ionIn, ltp_frame, f_framed, f_retry, flog >>
lifeVars == << grounds, datas, phase >>
extVars  == << maxsize, faultLog, afterStop, dropped, lifeVars >>
\* the same without the record of the calls after stop()
callVars == << maxsize, faultLog, dropped, lifeVars >>
\* the same without the record of the discarded entries
putVars  == << maxsize, faultLog, afterStop, lifeVars >>

(***************************************************************************)
(* The collaborators the pipelines are built from.                         *)
(***************************************************************************)
\* FramerDeframer.deframe_all of a deframer that recognises FrameLen-byte
\* frames: << frames, remainder >>
RECURSIVE DeframeAll(_)
DeframeAll(p) ==
    IF Len(p) < FrameLen
    THEN << <<>>, p >>
    ELSE LET rest == DeframeAll(SubSeq(p, FrameLen + 1, Len(p)))
         IN  << << SubSeq(p, 1, FrameLen) >> \o rest[1], rest[2] >>

\* FramerDeframer.frame: start byte, length, payload
Frame(p) == << 222, Len(p) >> \o p

\* U32Type(v).serialize(): four bytes, most significant first
U32Serialize(v) ==
    << (v \div 16777216) % 256, (v \div 65536) % 256,
       (v \div 256) % 256, v % 256 >>

\* the handshake repeats the framed bytes, not the packet
get_handshake_OfFramed(p) == U32Serialize(FW_PACKET_HAND) \o Frame(p)

\* Uplinker.get_handshake
get_handshake(p) == U32Serialize(FW_PACKET_HAND) \o p

\* queue.Queue: full only when a positive maxsize is reached
Full(q) == maxsize > 0 /\ Len(q) >= maxsize

\* the calls a stage made after stop() returned: none yet; the record is
\* kept (on) only in the runs that are about the work done after stop()
NoCalls == [on |-> TRUE, read |-> 0, send |-> 0, recv |-> 0, write |-> 0]
NotCounted == [on |-> FALSE, read |-> 0, send |-> 0, recv |-> 0, write |-> 0]

\* one more call of a kind, counted when the stage's flag is already False
\* (the count stays at 2 once it is there)
Called(calls, kind, running) ==
    IF ~calls.on \/ running \/ calls[kind] >= 2 THEN calls
    ELSE [calls EXCEPT ![kind] = @ + 1]

\* the flag is not looked at: "while True"
LoopTest_Once(running, p) == p

\* "while self.running" at the top of a stage loop
LoopTest(running, p) == IF running THEN p ELSE "exited"

\* the packets are taken from the end of the batch
RECURSIVE Reverse(_)
Reverse(q) == IF q = <<>> THEN <<>> ELSE Reverse(Tail(q)) \o << Head(q) >>

Filtered_Reversed(ps) ==
    Reverse(SelectSeq(ps, LAMBDA p : p # None /\ Len(p) > 0))

\* the length of the packet is not looked at: "if packet is not None"
Filtered_NotNone(ps) == SelectSeq(ps, LAMBDA p : p # None)

\* the list comprehension of Uplinker.uplink
Filtered(ps) == SelectSeq(ps, LAMBDA p : p # None /\ Len(p) > 0)

\* the pool is overwritten: pool = self.adapter.read()
PoolAfterRead_Replace(p, chunk) == chunk

\* pool += self.adapter.read()
PoolAfterRead(p, chunk) == p \o chunk

\* the batch keeps only the latest frame: frames = [...]
Collect_Replace(fs, f) == << f >>

\* the batch is built at the wrong end: frames.insert(0, ...)
Collect_Prepend(fs, f) == << f >> \o fs

\* frames.append(...) in Downlinker.sending
Collect(fs, f) == Append(fs, f)

\* a get() without timeout never raises Empty
GetTimesOut_Never(q) == FALSE

\* self.outgoing.get(timeout=0.500) raises Empty when the queue is still
\* empty after the timeout
GetTimesOut(q) == q = <<>>

\* the result of the write is not looked at
WriteSucceeded_Always(result) == TRUE

\* "if self.adapter.write(framed)"
WriteSucceeded(result) == result = TRUE

\* one pass too many: range(Uplinker.RETRY_COUNT + 1)
InRetryRange_OneMore(r) == r \in 0..RETRY_COUNT

\* "for retry in range(Uplinker.RETRY_COUNT)"
InRetryRange(r) == r \in 0..(RETRY_COUNT - 1)

\* the length of the packet is not looked at in DtnUplinker.uplink
DtnFiltered_NotNone(ps) == SelectSeq(ps, LAMBDA p : p # None)

\* the list comprehension of DtnUplinker.uplink
DtnFiltered(ps) == SelectSeq(ps, LAMBDA p : p # None /\ Len(p) > 0)

\* ltp_frame[4:] in DtnDownlinker.deframing
Strip4(f) == SubSeq(f, 5, Len(f))

\* join() does not wait for the thread at all
Joined_NoWait(th) == TRUE

\* "if thread is not None: thread.join()": returns at once for None, and
\* otherwise once the thread has ended, normally or with an exception
Joined(th) == th \in {"None", "exited", "fault"}

\* the except clause swallows every OSError
Swallowed_Always(running) == TRUE

\* "except OSError: if self.running: raise"
Swallowed(running) == ~running

\* an entry of the queue: the bytes, and where they came from
WireEntry(f) == [src |-> "wire", data |-> f]
LoopEntry(f) == [src |-> "loop", data |-> f]
BundleEntry(f) == [src |-> "bundle", data |-> f]

\* the value of lastBatch before the first send_all
NoBatch == << [src |-> "none", data |-> <<>>] >>

Event(e, d, k) == [ev |-> e, data |-> d, ok |-> k]

(***************************************************************************)
(* Construction: Downlinker.__init__ and Uplinker.__init__.                *)
(***************************************************************************)
InitOf(class, nwire, nground, capacity, calls) ==
    /\ cls = class
    /\ th_dtn_deframe = "None"
    /\ th_dtn_frame = "None"
    /\ ionOut = <<>>
    /\ ionIn = <<>>
    /\ ltp_frame = <<>>
    /\ f_framed = <<>>
    /\ f_retry = 0
    /\ flog = <<>>
    /\ dl_running = TRUE
    /\ up_running = TRUE
    /\ th_data = "None"
    /\ th_ground = "None"
    /\ th_uplink = "None"
    /\ main = "start_down"
    /\ pool = <<>>
    /\ d_frames = <<>>
    /\ outgoing = <<>>
    /\ s_frames = <<>>
    /\ packets = <<>>
    /\ packet = <<>>
    /\ framed = <<>>
    /\ retry = 0
    /\ wire = Wire(nwire)
    /\ inbox = nground
    /\ allRead = <<>>
    /\ readLog = <<>>
    /\ deframed = <<>>
    /\ accepted = <<>>
    /\ removed = <<>>
    /\ sent = <<>>
    /\ lastBatch = NoBatch
    /\ recvLog = <<>>
    /\ uplog = <<>>
    /\ maxsize = capacity
    /\ dropped = <<>>
    /\ faultLog = <<>>
    /\ afterStop = calls
    /\ grounds = <<>>
    /\ datas = <<>>
    /\ phase = "Stopped"

\* self.outgoing = Queue()
InitWith(class, nwire, nground) ==
    InitOf(class, nwire, nground, QueueMaxsize, NotCounted)

\* a run with a busy wire, or a run with a busy ground side
Init ==
    \/ InitWith("base", WireLen, ShortGround)
    \/ InitWith("base", ShortWire, GroundLen)

(***************************************************************************)
(* main() and shutdown() of comm.py.                                       *)
(***************************************************************************)
\* downlinker.start()
DownlinkerStart ==
    /\ cls = "base"
    /\ main = "start_down"
    /\ th_ground' = "loop"
    /\ th_data' = "loop"
    /\ main' = "start_up"
    /\ UNCHANGED << dl_running, up_running, th_uplink, outgoing >>
    /\ UNCHANGED << dlVars, sendVars, upVars, accepted >>
    /\ UNCHANGED dtnVars
    /\ UNCHANGED extVars

\* uplinker.start(); main then waits in uplinker.join()
UplinkerStart ==
    /\ cls = "base"
    /\ main = "start_up"
    /\ th_uplink' = "loop"
    /\ main' = "wait"
    /\ UNCHANGED << dl_running, up_running, th_data, th_ground, outgoing >>
    /\ UNCHANGED << dlVars, sendVars, upVars, accepted >>
    /\ UNCHANGED dtnVars
    /\ UNCHANGED extVars

\* a termination signal while main is in one of its own joins: shutdown()
\* begins with uplinker.stop()
UplinkerStop ==
    /\ main \in {"wait", "wait_down"}
    /\ up_running' = FALSE
    /\ main' = "stop_down"
    /\ UNCHANGED << dl_running, th_data, th_ground, th_uplink, outgoing >>
    /\ UNCHANGED << dlVars, sendVars, upVars, accepted >>
    /\ UNCHANGED dtnVars
    /\ UNCHANGED extVars

\* downlinker.stop()
DownlinkerStop ==
    /\ main = "stop_down"
    /\ dl_running' = FALSE
    /\ main' = "join_up"
    /\ UNCHANGED << up_running, th_data, th_ground, th_uplink, outgoing >>
    /\ UNCHANGED << dlVars, sendVars, upVars, accepted >>
    /\ UNCHANGED dtnVars
    /\ UNCHANGED extVars

\* uplinker.join() returns once the uplink thread has ended
UplinkerJoin ==
    /\ cls = "base"
    /\ main = "join_up"
    /\ Joined(th_uplink)
    /\ main' = "join_down"
    /\ UNCHANGED << dl_running, up_running, th_data, th_ground, th_uplink >>
    /\ UNCHANGED << dlVars, sendVars, upVars, outgoing, accepted >>
    /\ UNCHANGED dtnVars
    /\ UNCHANGED extVars

\* downlinker.join() returns once both downlink threads have ended
DownlinkerJoin ==
    /\ cls = "base"
    /\ main = "join_down"
    /\ Joined(th_data)
    /\ Joined(th_ground)
    /\ main' = "close"
    /\ UNCHANGED << dl_running, up_running, th_data, th_ground, th_uplink >>
    /\ UNCHANGED << dlVars, sendVars, upVars, outgoing, accepted >>
    /\ UNCHANGED dtnVars
    /\ UNCHANGED extVars

\* ground.close(); adapter.close()
Close ==
    /\ main = "close"
    /\ main' = "closed"
    /\ UNCHANGED << dl_running, up_running, th_data, th_ground, th_uplink >>
    /\ UNCHANGED << dlVars, sendVars, upVars, outgoing, accepted >>
    /\ UNCHANGED dtnVars
    /\ UNCHANGED extVars

(***************************************************************************)
(* Downlinker.deframing.                                                   *)
(***************************************************************************)
\* while self.running
DeframingLoop ==
    /\ cls = "base"
    /\ th_data = "loop"
    /\ th_data' = LoopTest(dl_running, "read")
    /\ UNCHANGED << dl_running, up_running, th_ground, th_uplink, main >>
    /\ UNCHANGED << dlVars, sendVars, upVars, outgoing, accepted >>
    /\ UNCHANGED dtnVars
    /\ UNCHANGED extVars

\* pool += self.adapter.read(); frames, pool = deframe_all(pool)
DeframingRead ==
    /\ cls = "base"
    /\ th_data = "read"
    /\ \E n \in 0..Min(MaxChunk, Len(wire)) :
         LET chunk == SubSeq(wire, 1, n)
             res   == DeframeAll(PoolAfterRead(pool, chunk))
         IN  /\ wire' = SubSeq(wire, n + 1, Len(wire))
             /\ allRead' = allRead \o chunk
             /\ readLog' = IF n = 0 THEN readLog ELSE Append(readLog, chunk)
             /\ d_frames' = res[1]
             /\ pool' = res[2]
             /\ deframed' = deframed \o res[1]
             /\ th_data' = IF res[1] = <<>> THEN "loop" ELSE "put"
    /\ afterStop' = Called(afterStop, "read", dl_running)
    /\ UNCHANGED << dl_running, up_running, th_ground, th_uplink, main >>
    /\ UNCHANGED << sendVars, upVars, outgoing, accepted >>
    /\ UNCHANGED dtnVars
    /\ UNCHANGED callVars

\* for frame in frames: self.outgoing.put_nowait(frame), inside try/except Full
DeframingPut ==
    /\ cls = "base"
    /\ th_data = "put"
    /\ IF Full(outgoing)
       THEN /\ d_frames' = <<>>
            /\ th_data' = "loop"
            /\ dropped' = Append(dropped, WireEntry(Head(d_frames)))
            /\ UNCHANGED << outgoing, accepted >>
       ELSE /\ outgoing' = Append(outgoing, WireEntry(Head(d_frames)))
            /\ accepted' = Append(accepted, WireEntry(Head(d_frames)))
            /\ d_frames' = Tail(d_frames)
            /\ th_data' = IF Tail(d_frames) = <<>> THEN "loop" ELSE "put"
            /\ UNCHANGED dropped
    /\ UNCHANGED << dl_running, up_running, th_ground, th_uplink, main >>
    /\ UNCHANGED << pool, wire, allRead, readLog, deframed >>
    /\ UNCHANGED << sendVars, upVars >>
    /\ UNCHANGED dtnVars
    /\ UNCHANGED putVars

(***************************************************************************)
(* Downlinker.sending.                                                     *)
(***************************************************************************)
\* while self.running: frames = []
SendingLoop ==
    /\ th_ground = "loop"
    /\ th_ground' = LoopTest(dl_running, "get")
    /\ s_frames' = <<>>
    /\ UNCHANGED << dl_running, up_running, th_data, th_uplink, main >>
    /\ UNCHANGED << removed, sent, lastBatch >>
    /\ UNCHANGED << dlVars, upVars, outgoing, accepted >>
    /\ UNCHANGED dtnVars
    /\ UNCHANGED extVars

\* frames.append(self.outgoing.get(timeout=0.500)); Empty after the timeout
SendingGet ==
    /\ th_ground = "get"
    /\ outgoing # <<>> \/ GetTimesOut(outgoing)
    /\ IF outgoing = <<>>
       THEN /\ th_ground' = "send"
            /\ UNCHANGED << outgoing, s_frames, removed >>
       ELSE /\ s_frames' = Collect(s_frames, Head(outgoing))
            /\ removed' = Append(removed, Head(outgoing))
            /\ outgoing' = Tail(outgoing)
            /\ th_ground' = "drain"
    /\ UNCHANGED << dl_running, up_running, th_data, th_uplink, main >>
    /\ UNCHANGED << sent, lastBatch >>
    /\ UNCHANGED << dlVars, upVars, accepted >>
    /\ UNCHANGED dtnVars
    /\ UNCHANGED extVars

\* while not self.outgoing.empty(): frames.append(self.outgoing.get_nowait())
SendingDrain ==
    /\ th_ground = "drain"
    /\ IF outgoing = <<>>
       THEN /\ th_ground' = "send"
            /\ UNCHANGED << outgoing, s_frames, removed >>
       ELSE /\ s_frames' = Collect(s_frames, Head(outgoing))
            /\ removed' = Append(removed, Head(outgoing))
            /\ outgoing' = Tail(outgoing)
            /\ th_ground' = "drain"
    /\ UNCHANGED << dl_running, up_running, th_data, th_uplink, main >>
    /\ UNCHANGED << sent, lastBatch >>
    /\ UNCHANGED << dlVars, upVars, accepted >>
    /\ UNCHANGED dtnVars
    /\ UNCHANGED extVars

\* self.ground.send_all(frames)
SendingSend ==
    /\ th_ground = "send"
    /\ sent' = sent \o s_frames
    /\ lastBatch' = s_frames
    /\ s_frames' = <<>>
    /\ th_ground' = "loop"
    /\ afterStop' = Called(afterStop, "send", dl_running)
    /\ UNCHANGED << dl_running, up_running, th_data, th_uplink, main >>
    /\ UNCHANGED << removed >>
    /\ UNCHANGED << dlVars, upVars, outgoing, accepted >>
    /\ UNCHANGED dtnVars
    /\ UNCHANGED callVars

(***************************************************************************)
(* Uplinker.uplink.                                                        *)
(***************************************************************************)
\* while self.running
UplinkLoop ==
    /\ cls = "base"
    /\ th_uplink = "loop"
    /\ th_uplink' = LoopTest(up_running, "receive")
    /\ UNCHANGED << dl_running, up_running, th_data, th_ground, main >>
    /\ UNCHANGED << dlVars, sendVars, upVars, outgoing, accepted >>
    /\ UNCHANGED dtnVars
    /\ UNCHANGED extVars

\* packets = self.ground.receive_all(), then the filtering comprehension
UplinkReceive ==
    /\ cls = "base"
    /\ th_uplink = "receive"
    /\ \E n \in 0..Min(MaxBatch, inbox) :
       \E batch \in Batches(n, Len(Flatten(recvLog))) :
             /\ inbox' = inbox - n
             /\ recvLog' = IF n = 0 THEN recvLog ELSE Append(recvLog, batch)
             /\ packets' = Filtered(batch)
             /\ th_uplink' = IF Filtered(batch) = <<>> THEN "loop" ELSE "frame"
    /\ afterStop' = Called(afterStop, "recv", up_running)
    /\ UNCHANGED << dl_running, up_running, th_data, th_ground, main >>
    /\ UNCHANGED << packet, framed, retry, uplog >>
    /\ UNCHANGED << dlVars, sendVars, outgoing, accepted >>
    /\ UNCHANGED dtnVars
    /\ UNCHANGED callVars

\* for packet in [...]: framed = self.framer.frame(packet)
UplinkFrame ==
    /\ cls = "base"
    /\ th_uplink = "frame"
    /\ packet' = Head(packets)
    /\ packets' = Tail(packets)
    /\ framed' = Frame(Head(packets))
    /\ retry' = 0
    /\ uplog' = Append(uplog, Event("frame", Head(packets), TRUE))
    /\ th_uplink' = "write"
    /\ UNCHANGED << dl_running, up_running, th_data, th_ground, main >>
    /\ UNCHANGED << inbox, recvLog >>
    /\ UNCHANGED << dlVars, sendVars, outgoing, accepted >>
    /\ UNCHANGED dtnVars
    /\ UNCHANGED extVars

\* where the uplink thread goes when it is done with a packet
AfterPacket == IF packets = <<>> THEN "loop" ELSE "frame"

\* one pass of "for retry in range(RETRY_COUNT)": adapter.write(framed), then
\* on success add_loopback_frame(get_handshake(packet)) and break; after the
\* last pass the warning of the for's else branch
UplinkWrite ==
    /\ cls = "base"
    /\ th_uplink = "write"
    /\ \E result \in BOOLEAN :
         IF WriteSucceeded(result)
         THEN /\ IF Full(outgoing)
                 THEN /\ UNCHANGED << outgoing, accepted >>
                      /\ dropped' = Append(dropped, LoopEntry(get_handshake(packet)))
                      /\ uplog' = uplog \o << Event("write", framed, result) >>
                 ELSE /\ outgoing' = Append(outgoing, LoopEntry(get_handshake(packet)))
                      /\ accepted' = Append(accepted, LoopEntry(get_handshake(packet)))
                      /\ uplog' = uplog \o << Event("write", framed, result),
                                              Event("hand", get_handshake(packet), TRUE) >>
                      /\ UNCHANGED dropped
              /\ retry' = retry
              /\ th_uplink' = AfterPacket
         ELSE /\ IF InRetryRange(retry + 1)
                 THEN /\ retry' = retry + 1
                      /\ uplog' = uplog \o << Event("write", framed, result) >>
                      /\ th_uplink' = "write"
                 ELSE /\ retry' = retry
                      /\ uplog' = uplog \o << Event("write", framed, result),
                                              Event("warn", framed, FALSE) >>
                      /\ th_uplink' = AfterPacket
              /\ UNCHANGED << outgoing, accepted, dropped >>
    /\ afterStop' = Called(afterStop, "write", up_running)
    /\ UNCHANGED << dl_running, up_running, th_data, th_ground, main >>
    /\ UNCHANGED << packets, packet, framed, inbox, recvLog >>
    /\ UNCHANGED << dlVars, sendVars >>
    /\ UNCHANGED dtnVars
    /\ UNCHANGED << maxsize, faultLog, lifeVars >>

(***************************************************************************)
(* DtnDownlinker and DtnUplinker, the classes comm.py constructs.  ION is  *)
(* two queues: the outbound LTP segments that bp_send gave rise to, and    *)
(* the bundles that the inbound segments gave rise to.  bp_receive and     *)
(* ltp_dequeue_outbound_segment return only when there is something to     *)
(* return.                                                                 *)
(***************************************************************************)
\* downlinker.start(): DtnDownlinker.start
DtnDownlinkerStart ==
    /\ cls = "dtn"
    /\ main = "start_down"
    /\ th_ground' = "loop"
    /\ th_data' = "loop"
    /\ th_dtn_deframe' = "loop"
    /\ main' = "start_up"
    /\ UNCHANGED << dl_running, up_running, th_uplink, outgoing >>
    /\ UNCHANGED << dlVars, sendVars, upVars, accepted >>
    /\ UNCHANGED << cls, th_dtn_frame, ionOut, ionIn >>
    /\ UNCHANGED << ltp_frame, f_framed, f_retry, flog >>
    /\ UNCHANGED extVars

\* uplinker.start(): DtnUplinker.start; main then waits in uplinker.join()
DtnUplinkerStart ==
    /\ cls = "dtn"
    /\ main = "start_up"
    /\ th_uplink' = "loop"
    /\ th_dtn_frame' = "loop"
    /\ main' = "wait"
    /\ UNCHANGED << dl_running, up_running, th_data, th_ground, outgoing >>
    /\ UNCHANGED << dlVars, sendVars, upVars, accepted >>
    /\ UNCHANGED << cls, th_dtn_deframe, ionOut, ionIn >>
    /\ UNCHANGED << ltp_frame, f_framed, f_retry, flog >>
    /\ UNCHANGED extVars

\* uplinker.join(): DtnUplinker.join
DtnUplinkerJoin ==
    /\ cls = "dtn"
    /\ main = "join_up"
    /\ Joined(th_uplink)
    /\ Joined(th_dtn_frame)
    /\ main' = "join_down"
    /\ UNCHANGED << dl_running, up_running, th_data, th_ground, th_uplink >>
    /\ UNCHANGED << dlVars, sendVars, upVars, outgoing, accepted >>
    /\ UNCHANGED dtnVars
    /\ UNCHANGED extVars

\* downlinker.join(): DtnDownlinker.join
DtnDownlinkerJoin ==
    /\ cls = "dtn"
    /\ main = "join_down"
    /\ Joined(th_data)
    /\ Joined(th_ground)
    /\ Joined(th_dtn_deframe)
    /\ main' = "close"
    /\ UNCHANGED << dl_running, up_running, th_data, th_ground, th_uplink >>
    /\ UNCHANGED << dlVars, sendVars, upVars, outgoing, accepted >>
    /\ UNCHANGED dtnVars
    /\ UNCHANGED extVars

\* DtnDownlinker.deframing: while self.running
DtnDeframingLoop ==
    /\ cls = "dtn"
    /\ th_data = "loop"
    /\ th_data' = IF dl_running THEN "read" ELSE "exited"
    /\ UNCHANGED << dl_running, up_running, th_ground, th_uplink, main >>
    /\ UNCHANGED << dlVars, sendVars, upVars, outgoing, accepted >>
    /\ UNCHANGED dtnVars
    /\ UNCHANGED extVars

\* pool += self.adapter.read(); ltp_frames, pool = deframe_all(pool)
DtnDeframingRead ==
    /\ cls = "dtn"
    /\ th_data = "read"
    /\ \E n \in 0..Min(MaxChunk, Len(wire)) :
         LET chunk == SubSeq(wire, 1, n)
             res   == DeframeAll(pool \o chunk)
         IN  /\ wire' = SubSeq(wire, n + 1, Len(wire))
             /\ allRead' = allRead \o chunk
             /\ readLog' = IF n = 0 THEN readLog ELSE Append(readLog, chunk)
             /\ d_frames' = res[1]
             /\ pool' = res[2]
             /\ deframed' = deframed \o res[1]
             /\ th_data' = IF res[1] = <<>> THEN "loop" ELSE "handle"
    /\ UNCHANGED << dl_running, up_running, th_ground, th_uplink, main >>
    /\ UNCHANGED << sendVars, upVars, outgoing, accepted >>
    /\ UNCHANGED dtnVars
    /\ UNCHANGED extVars

\* for ltp_frame in ltp_frames: ltp_handle_inbound_segment(ltp_frame[4:]);
\* ION makes the segment a bundle for bp_receive
DtnDeframingHandle ==
    /\ cls = "dtn"
    /\ th_data = "handle"
    /\ ionIn' = Append(ionIn, Strip4(Head(d_frames)))
    /\ d_frames' = Tail(d_frames)
    /\ th_data' = IF Tail(d_frames) = <<>> THEN "loop" ELSE "handle"
    /\ UNCHANGED << dl_running, up_running, th_ground, th_uplink, main >>
    /\ UNCHANGED << pool, wire, allRead, readLog, deframed >>
    /\ UNCHANGED << sendVars, upVars, outgoing, accepted >>
    /\ UNCHANGED << cls, th_dtn_deframe, th_dtn_frame, ionOut >>
    /\ UNCHANGED << ltp_frame, f_framed, f_retry, flog >>
    /\ UNCHANGED extVars

\* DtnDownlinker._dtn_deframe: while self.running
DtnDeframeLoop ==
    /\ cls = "dtn"
    /\ th_dtn_deframe = "loop"
    /\ th_dtn_deframe' = IF dl_running THEN "receive" ELSE "exited"
    /\ UNCHANGED << dl_running, up_running, th_data, th_ground, th_uplink >>
    /\ UNCHANGED << main, dlVars, sendVars, upVars, outgoing, accepted >>
    /\ UNCHANGED << cls, th_dtn_frame, ionOut, ionIn >>
    /\ UNCHANGED << ltp_frame, f_framed, f_retry, flog >>
    /\ UNCHANGED extVars

\* bundle_frame = self.eid.bp_receive(); self.outgoing.put_nowait(bundle_frame)
DtnDeframeReceive ==
    /\ cls = "dtn"
    /\ th_dtn_deframe = "receive"
    /\ ionIn # <<>>
    /\ ionIn' = Tail(ionIn)
    /\ IF Full(outgoing)
       THEN /\ dropped' = Append(dropped, BundleEntry(Head(ionIn)))
            /\ UNCHANGED << outgoing, accepted >>
       ELSE /\ outgoing' = Append(outgoing, BundleEntry(Head(ionIn)))
            /\ accepted' = Append(accepted, BundleEntry(Head(ionIn)))
            /\ UNCHANGED dropped
    /\ th_dtn_deframe' = "loop"
    /\ UNCHANGED << dl_running, up_running, th_data, th_ground, th_uplink >>
    /\ UNCHANGED << main, dlVars, sendVars, upVars >>
    /\ UNCHANGED << cls, th_dtn_frame, ionOut >>
    /\ UNCHANGED << ltp_frame, f_framed, f_retry, flog >>
    /\ UNCHANGED putVars

\* DtnUplinker.uplink: while self.running
DtnUplinkLoop ==
    /\ cls = "dtn"
    /\ th_uplink = "loop"
    /\ th_uplink' = IF up_running THEN "receive" ELSE "exited"
    /\ UNCHANGED << dl_running, up_running, th_data, th_ground, main >>
    /\ UNCHANGED << dlVars, sendVars, upVars, outgoing, accepted >>
    /\ UNCHANGED dtnVars
    /\ UNCHANGED extVars

\* packets = self.ground.receive_all(), then the filtering comprehension
DtnUplinkReceive ==
    /\ cls = "dtn"
    /\ th_uplink = "receive"
    /\ \E n \in 0..Min(MaxBatch, inbox) :
       \E batch \in Batches(n, Len(Flatten(recvLog))) :
             /\ inbox' = inbox - n
             /\ recvLog' = IF n = 0 THEN recvLog ELSE Append(recvLog, batch)
             /\ packets' = DtnFiltered(batch)
             /\ th_uplink' = IF DtnFiltered(batch) = <<>> THEN "loop"
                                                       ELSE "send"
    /\ UNCHANGED << dl_running, up_running, th_data, th_ground, main >>
    /\ UNCHANGED << packet, framed, retry, uplog >>
    /\ UNCHANGED << dlVars, sendVars, outgoing, accepted >>
    /\ UNCHANGED dtnVars
    /\ UNCHANGED extVars

\* for packet in [...]: self.eid.bp_send(DEST_EID_NAME, bytes(packet)), then
\* self.loopback.add_loopback_frame(Uplinker.get_handshake(packet))
DtnUplinkSend ==
    /\ cls = "dtn"
    /\ th_uplink = "send"
    /\ packet' = Head(packets)
    /\ packets' = Tail(packets)
    /\ ionOut' = Append(ionOut, Head(packets))
    /\ IF Full(outgoing)
       THEN /\ UNCHANGED << outgoing, accepted >>
            /\ dropped' = Append(dropped, LoopEntry(get_handshake(Head(packets))))
            /\ uplog' = uplog \o << Event("send", Head(packets), TRUE) >>
       ELSE /\ outgoing' = Append(outgoing, LoopEntry(get_handshake(Head(packets))))
            /\ accepted' = Append(accepted, LoopEntry(get_handshake(Head(packets))))
            /\ uplog' = uplog \o << Event("send", Head(packets), TRUE),
                                    Event("hand", get_handshake(Head(packets)), TRUE) >>
            /\ UNCHANGED dropped
    /\ th_uplink' = IF Tail(packets) = <<>> THEN "loop" ELSE "send"
    /\ UNCHANGED << dl_running, up_running, th_data, th_ground, main >>
    /\ UNCHANGED << framed, retry, inbox, recvLog >>
    /\ UNCHANGED << dlVars, sendVars >>
    /\ UNCHANGED << cls, th_dtn_deframe, th_dtn_frame, ionIn >>
    /\ UNCHANGED << ltp_frame, f_framed, f_retry, flog >>
    /\ UNCHANGED putVars

\* DtnUplinker._dtn_frame: while self.running
DtnFrameLoop ==
    /\ cls = "dtn"
    /\ th_dtn_frame = "loop"
    /\ th_dtn_frame' = IF up_running THEN "dequeue" ELSE "exited"
    /\ UNCHANGED << dl_running, up_running, th_data, th_ground, th_uplink >>
    /\ UNCHANGED << main, dlVars, sendVars, upVars, outgoing, accepted >>
    /\ UNCHANGED << cls, th_dtn_deframe, ionOut, ionIn >>
    /\ UNCHANGED << ltp_frame, f_framed, f_retry, flog >>
    /\ UNCHANGED extVars

\* with ltp_dequeue_outbound_segment(self.vspan) as ltp_frame:
\*     framed = self.framer.frame(ltp_frame)
DtnFrameDequeue ==
    /\ cls = "dtn"
    /\ th_dtn_frame = "dequeue"
    /\ ionOut # <<>>
    /\ ltp_frame' = Head(ionOut)
    /\ ionOut' = Tail(ionOut)
    /\ f_framed' = Frame(Head(ionOut))
    /\ f_retry' = 0
    /\ th_dtn_frame' = "write"
    /\ UNCHANGED << dl_running, up_running, th_data, th_ground, th_uplink >>
    /\ UNCHANGED << main, dlVars, sendVars, upVars, outgoing, accepted >>
    /\ UNCHANGED << cls, th_dtn_deframe, ionIn, flog >>
    /\ UNCHANGED extVars

\* one pass of "for retry in range(Uplinker.RETRY_COUNT)" of _dtn_frame
DtnFrameWrite ==
    /\ cls = "dtn"
    /\ th_dtn_frame = "write"
    /\ \E result \in BOOLEAN :
         /\ flog' = Append(flog, [data |-> f_framed, ok |-> result])
         /\ IF result
            THEN /\ f_retry' = f_retry
                 /\ th_dtn_frame' = "loop"
            ELSE IF f_retry + 1 < RETRY_COUNT
                 THEN /\ f_retry' = f_retry + 1
                      /\ th_dtn_frame' = "write"
                 ELSE /\ f_retry' = f_retry
                      /\ th_dtn_frame' = "loop"
    /\ UNCHANGED << dl_running, up_running, th_data, th_ground, th_uplink >>
    /\ UNCHANGED << main, dlVars, sendVars, upVars, outgoing, accepted >>
    /\ UNCHANGED << cls, th_dtn_deframe, ionOut, ionIn, ltp_frame, f_framed >>
    /\ UNCHANGED extVars

Next ==
    \/ DownlinkerStart
    \/ UplinkerStart
    \/ UplinkerStop
    \/ DownlinkerStop
    \/ UplinkerJoin
    \/ DownlinkerJoin
    \/ Close
    \/ DeframingLoop
    \/ DeframingRead
    \/ DeframingPut
    \/ SendingLoop
    \/ SendingGet
    \/ SendingDrain
    \/ SendingSend
    \/ UplinkLoop
    \/ UplinkReceive
    \/ UplinkFrame
    \/ UplinkWrite

Spec == Init /\ [][Next]_vars

(***************************************************************************)
(* The program with the classes comm.py constructs, and the program with   *)
(* either pair of classes.                                                 *)
(***************************************************************************)
DtnInit == InitWith("dtn", ShortWire, ShortGround)

DtnNext ==
    \/ DtnDownlinkerStart
    \/ DtnUplinkerStart
    \/ UplinkerStop
    \/ DownlinkerStop
    \/ DtnUplinkerJoin
    \/ DtnDownlinkerJoin
    \/ Close
    \/ DtnDeframingLoop
    \/ DtnDeframingRead
    \/ DtnDeframingHandle
    \/ DtnDeframeLoop
    \/ DtnDeframeReceive
    \/ SendingLoop
    \/ SendingGet
    \/ SendingDrain
    \/ SendingSend
    \/ DtnUplinkLoop
    \/ DtnUplinkReceive
    \/ DtnUplinkSend
    \/ DtnFrameLoop
    \/ DtnFrameDequeue
    \/ DtnFrameWrite

DtnSpec == DtnInit /\ [][DtnNext]_vars

BothSpec == (Init \/ DtnInit) /\ [][Next \/ DtnNext]_vars

(***************************************************************************)
(* The same program under a fair scheduler: every stage thread that can    *)
(* take a step eventually takes one, and so does the main thread once it   *)
(* is inside main() or shutdown().  The arrival of the termination signal  *)
(* (UplinkerStop, the first statement of shutdown) is left to the          *)
(* environment.  The wire and the ground side are both short.              *)
(***************************************************************************)
DeframingThread == DeframingLoop \/ DeframingRead \/ DeframingPut
SendingThread == SendingLoop \/ SendingGet \/ SendingDrain \/ SendingSend
UplinkThread == UplinkLoop \/ UplinkReceive \/ UplinkFrame \/ UplinkWrite
MainThread ==
    \/ DownlinkerStart \/ UplinkerStart \/ DownlinkerStop
    \/ UplinkerJoin \/ DownlinkerJoin \/ Close

LiveInit == InitWith("base", ShortWire, ShortGround)

Fairness ==
    /\ WF_vars(DeframingThread)
    /\ WF_vars(SendingThread)
    /\ WF_vars(UplinkThread)
    /\ WF_vars(MainThread)

LiveSpec == LiveInit /\ [][Next]_vars /\ Fairness

(***************************************************************************)
(* What the claims speak about.                                            *)
(***************************************************************************)
\* the bytes of the entries of q that came from the deframer / the uplink
RECURSIVE DataOf(_, _)
DataOf(q, from) ==
    IF q = <<>> THEN <<>>
    ELSE (IF Head(q).src = from THEN << Head(q).data >> ELSE <<>>)
         \o DataOf(Tail(q), from)

WireData(q) == DataOf(q, "wire")
LoopData(q) == DataOf(q, "loop")

(***************************************************************************)
(* C1.  Order preservation in the downlink: the frames the deframer        *)
(* extracted, F1..Fn, reach send_all in exactly that order, none twice and *)
(* none reordered.  In every state the deframed frames are, in order,      *)
(* those already given to send_all, those of the batch being collected,    *)
(* those still queued and those the deframing stage has yet to put; so     *)
(* once nothing is in flight the frames given to send_all are F1..Fn.      *)
(***************************************************************************)
C1_OrderPreserved ==
    /\ WireData(sent \o s_frames \o outgoing) \o d_frames = deframed
    /\ (s_frames = <<>> /\ outgoing = <<>> /\ d_frames = <<>>)
          => WireData(sent) = deframed

\* two frames were deframed and both were forwarded, in order, in one
\* batch, with a handshake forwarded as well
C1_Witness ==
    /\ Len(deframed) >= 2
    /\ WireData(sent) = deframed
    /\ LoopData(sent) # <<>>
    /\ Len(WireData(lastBatch)) >= 2


(***************************************************************************)
(* The record of the uplink stage.  uplog holds, in the order they were    *)
(* made, the calls of the stage: "frame" (framer.frame of a packet),       *)
(* "write" (one adapter.write, with its result), "hand" (one               *)
(* add_loopback_frame) and "warn" (the warning after the last retry).      *)
(***************************************************************************)
Events(kind) == { i \in DOMAIN uplog : uplog[i].ev = kind }

\* the "frame" event that opens the packet event i belongs to
PacketStart(i) ==
    CHOOSE j \in 1..i :
        /\ uplog[j].ev = "frame"
        /\ \A k \in (j + 1)..i : uplog[k].ev # "frame"

PacketAt(i) == uplog[PacketStart(i)].data

WritesOf(j) == { i \in Events("write") : PacketStart(i) = j }
OkWritesOf(j) == { i \in WritesOf(j) : uplog[i].ok }
HandsOf(j) == { i \in Events("hand") : PacketStart(i) = j }
WarnsOf(j) == { i \in Events("warn") : PacketStart(i) = j }

\* the data of the events of one kind, in order
RECURSIVE EventData(_, _)
EventData(log, kind) ==
    IF log = <<>> THEN <<>>
    ELSE (IF Head(log).ev = kind THEN << Head(log).data >> ELSE <<>>)
         \o EventData(Tail(log), kind)

\* a packet the stage has to send: neither None nor empty
RealPacket(p) == p # None /\ p # <<>>

\* the stage is done with the packet opened by event j
PacketDone(j) == th_uplink # "write" \/ \E k \in Events("frame") : k > j

(***************************************************************************)
(* C2.  Handshake if and only if success: a packet gets exactly one        *)
(* handshake, pushed right after its successful write, when one of its     *)
(* writes succeeded, and none when all its writes failed; the handshakes   *)
(* pushed to the Downlinker queue are exactly these, and their number is   *)
(* the number of packets with a successful write.                          *)
(***************************************************************************)
C2_HandshakeIffSuccess ==
    /\ \A j \in Events("frame") :
          Cardinality(HandsOf(j)) = IF OkWritesOf(j) # {} THEN 1 ELSE 0
    /\ \A i \in Events("hand") :
          /\ i > 1
          /\ uplog[i - 1].ev = "write"
          /\ uplog[i - 1].ok
    /\ \A i \in Events("write") :
          uplog[i].ok => (i < Len(uplog) /\ uplog[i + 1].ev = "hand")
    /\ LoopData(accepted) = EventData(uplog, "hand")
    /\ Len(LoopData(accepted))
          = Cardinality({ j \in Events("frame") : OkWritesOf(j) # {} })

\* one packet used up its retries and got no handshake, another was written
\* at its second attempt and got one
C2_Witness ==
    /\ \E j \in Events("frame") :
          Cardinality(WritesOf(j)) = RETRY_COUNT /\ OkWritesOf(j) = {}
                                               /\ HandsOf(j) = {}
    /\ \E j \in Events("frame") :
          Cardinality(WritesOf(j)) = 2 /\ Cardinality(HandsOf(j)) = 1
    /\ Len(LoopData(accepted)) = 1

(***************************************************************************)
(* C3.  Retry bound: the writes of a packet follow its framing without     *)
(* anything in between, all carry the framed packet, there are at most     *)
(* RETRY_COUNT of them and only the last one can have succeeded; when the  *)
(* stage is done with the packet it made as many writes as the first       *)
(* success needed, or RETRY_COUNT when none succeeded.  After RETRY_COUNT   *)
(* failures there is one warning and nothing else: the packet is never     *)
(* framed or written again, and the stage goes on with the next packet and *)
(* ends only when it was stopped.                                          *)
(***************************************************************************)
C3_RetryBound ==
    /\ \A j \in Events("frame") :
          LET n == Cardinality(WritesOf(j))
          IN  /\ WritesOf(j) = (j + 1)..(j + n)
              /\ n <= RETRY_COUNT
              /\ \A i \in WritesOf(j) :
                    /\ uplog[i].data = Frame(uplog[j].data)
                    /\ i < j + n => ~uplog[i].ok
              /\ PacketDone(j) =>
                    /\ n >= 1
                    /\ uplog[j + n].ok \/ n = RETRY_COUNT
              /\ WarnsOf(j) =
                    IF n = RETRY_COUNT /\ OkWritesOf(j) = {}
                    THEN { j + n + 1 } ELSE {}
    /\ \A p \in { Flatten(recvLog)[i] : i \in DOMAIN Flatten(recvLog) } :
          Cardinality({ j \in Events("frame") : uplog[j].data = p }) <= 1
    /\ (uplog # <<>> /\ uplog[Len(uplog)].ev = "warn") =>
          th_uplink \in (IF packets = <<>> THEN {"loop", "receive", "exited"}
                                           ELSE {"frame"})
    /\ th_uplink = "exited" => (~up_running /\ packets = <<>>)

\* a packet used up its RETRY_COUNT writes, was given up with a warning, and
\* the next packet of the batch was then framed and written
C3_Witness ==
    /\ Len(uplog) >= RETRY_COUNT + 4
    /\ uplog[1].ev = "frame"
    /\ \A i \in 2..(RETRY_COUNT + 1) : uplog[i].ev = "write" /\ ~uplog[i].ok
    /\ uplog[RETRY_COUNT + 2].ev = "warn"
    /\ uplog[RETRY_COUNT + 3].ev = "frame"
    /\ uplog[RETRY_COUNT + 4].ev = "write"
    /\ Len(recvLog) = 1


(***************************************************************************)
(* C4.  The outgoing queue has a finite capacity and never holds more      *)
(* frames than that capacity.  The capacity of the queue is the maxsize    *)
(* its constructor was given.                                              *)
(***************************************************************************)
C4_QueueBounded == Len(outgoing) <= QueueMaxsize

(***************************************************************************)
(* C5.  Stop-responsiveness: once stop() has been called on both started   *)
(* pipelines, the deframing, sending and uplink threads all exit and both  *)
(* join() calls return.  Adapter.read and receive_all return (with or      *)
(* without data) whenever they are called, the queue wait times out.       *)
(***************************************************************************)
AllExited ==
    th_data = "exited" /\ th_ground = "exited" /\ th_uplink = "exited"

C5_StopResponsive ==
    (main = "join_up") ~> (AllExited /\ main \in {"close", "closed"})

\* the idle case: nothing was ever read or received, the sending stage
\* timed out on the empty queue, and after stop() all threads have exited
\* and both joins have returned
C5_Witness ==
    /\ allRead = <<>>
    /\ recvLog = <<>>
    /\ lastBatch = <<>>
    /\ AllExited
    /\ main \in {"close", "closed"}


(***************************************************************************)
(* C6.  Partial-frame reassembly: the pool carries the unconsumed bytes    *)
(* from one iteration to the next.  All bytes read so far are the bytes of *)
(* the extracted frames followed by the pool; every extracted frame is a   *)
(* whole frame, so a frame that arrives in two reads is extracted once,    *)
(* after the second read, and never as two parts.                          *)
(***************************************************************************)
C6_Reassembly ==
    /\ allRead = Flatten(deframed) \o pool
    /\ allRead = Flatten(readLog)
    /\ \A i \in DOMAIN deframed : Len(deframed[i]) = FrameLen
    /\ Len(pool) < FrameLen
    /\ Len(deframed) = Len(allRead) \div FrameLen

\* the first frame arrived in two non-empty reads; it was extracted once,
\* and exactly that one frame went through send_all
C6_Witness ==
    /\ Len(readLog) = 2
    /\ readLog[1] # <<>> /\ readLog[2] # <<>>
    /\ deframed = << readLog[1] \o readLog[2] >>
    /\ pool = <<>>
    /\ WireData(sent) = deframed

(***************************************************************************)
(* C7.  Handshake content: every handshake pushed for a packet P is the    *)
(* four bytes 00 00 00 FW_PACKET_HAND followed by the bytes of P as the    *)
(* ground side handed it over (not its framed form); get_handshake(P) is   *)
(* four bytes longer than P and ends with P.  When the only packet is      *)
(* written at the first attempt the queue receives exactly that one frame. *)
(***************************************************************************)
Descriptor == << 0, 0, 0, FW_PACKET_HAND >>

SomePackets ==
    { <<>> } \cup { DataPacket(i) : i \in 1..GroundLen }
             \cup { Frame(DataPacket(i)) : i \in 1..GroundLen }

C7_HandshakeContent ==
    /\ \A i \in Events("hand") : uplog[i].data = Descriptor \o PacketAt(i)
    /\ \A k \in DOMAIN LoopData(accepted) :
          LoopData(accepted)[k] = EventData(uplog, "hand")[k]
    /\ \A P \in SomePackets :
          /\ Len(get_handshake(P)) = Len(P) + 4
          /\ SubSeq(get_handshake(P), 1, 4) = Descriptor
          /\ SubSeq(get_handshake(P), 5, Len(P) + 4) = P
    /\ (Cardinality(Events("frame")) = 1 /\ Len(uplog) >= 2 /\ uplog[2].ok)
          => LoopData(accepted) = << Descriptor \o uplog[1].data >>

\* receive_all returned one batch with one real packet, the first write
\* succeeded, and the queue received exactly one frame: descriptor + packet
C7_Witness ==
    /\ Len(recvLog) = 1
    /\ inbox = 0
    /\ Len(uplog) = 3
    /\ uplog[1].ev = "frame" /\ Len(uplog[1].data) = 2
    /\ uplog[2].ev = "write" /\ uplog[2].ok
    /\ accepted = << LoopEntry(<< 0, 0, 0, 254 >> \o uplog[1].data) >>

(***************************************************************************)
(* C8.  Uplink ordering: the packets are framed in the order receive_all   *)
(* returned them, batch after batch; every write carries the packet framed *)
(* last, so all writes of a packet are made before the next packet is      *)
(* touched; and the handshakes enter the Downlinker queue in the order of  *)
(* the packets that were written successfully.                             *)
(***************************************************************************)
\* the packets whose write succeeded, in the order of the writes
RECURSIVE OkPackets(_)
OkPackets(n) ==
    IF n = 0 THEN <<>>
    ELSE OkPackets(n - 1)
         \o (IF uplog[n].ev = "write" /\ uplog[n].ok
             THEN << PacketAt(n) >> ELSE <<>>)

C8_UplinkOrder ==
    /\ EventData(uplog, "frame") \o packets
          = SelectSeq(Flatten(recvLog), RealPacket)
    /\ \A i \in Events("write") : uplog[i].data = Frame(PacketAt(i))
    /\ th_uplink = "write" =>
          (uplog # <<>> /\ packet = PacketAt(Len(uplog))
                       /\ framed = Frame(packet))
    /\ LoopData(accepted)
          = [k \in DOMAIN OkPackets(Len(uplog)) |->
                Descriptor \o OkPackets(Len(uplog))[k]]
    /\ accepted = removed \o outgoing

\* two packets of one batch were both written, the first one after a failed
\* attempt, and their handshakes are queued in the order of the packets
C8_Witness ==
    /\ Len(recvLog) = 1
    /\ Len(OkPackets(Len(uplog))) = 2
    /\ OkPackets(Len(uplog)) = SelectSeq(recvLog[1], RealPacket)
    /\ Cardinality(WritesOf(1)) = 2
    /\ Len(LoopData(accepted)) = 2

(***************************************************************************)
(* C10.  Sending-stage batching: an iteration takes one frame (waiting at  *)
(* most for the timeout), then every further frame until it finds the      *)
(* queue empty, and gives what it collected to send_all in one call, in    *)
(* queue order.  What was taken out of the queue is what was given to      *)
(* send_all followed by the batch being collected: nothing is lost and     *)
(* nothing is sent twice.  When the wait times out the batch is empty,     *)
(* send_all is called with it, and the stage goes to its next iteration.   *)
(***************************************************************************)
IsSuffix(t, q) ==
    Len(t) <= Len(q) /\ SubSeq(q, Len(q) - Len(t) + 1, Len(q)) = t

C10_State ==
    /\ sent \o s_frames = removed
    /\ accepted = removed \o outgoing
    /\ th_ground \in {"None", "loop", "get", "exited"} => s_frames = <<>>
    /\ th_ground = "drain" => s_frames # <<>>
    /\ lastBatch # NoBatch => IsSuffix(lastBatch, sent)

C10_Step ==
    /\ (th_ground = "get" /\ th_ground' = "drain") =>
          (outgoing # <<>> /\ s_frames' = << Head(outgoing) >>)
    /\ (th_ground = "get" /\ th_ground' = "send") =>
          (outgoing = <<>> /\ s_frames' = <<>>)
    /\ (th_ground = "drain" /\ th_ground' = "send") =>
          (outgoing = <<>> /\ s_frames' = s_frames)
    /\ (th_ground = "send" /\ th_ground' # "send") =>
          /\ th_ground' = "loop"
          /\ lastBatch' = s_frames
          /\ sent' = sent \o s_frames
          /\ outgoing' = outgoing

C10_Batching == []C10_State /\ [][C10_Step]_vars

\* a batch of two frames was given to send_all in one call, and the next
\* iteration timed out and is about to call send_all with an empty batch
C10_Witness ==
    /\ Len(lastBatch) >= 2
    /\ lastBatch # NoBatch
    /\ th_ground = "send"
    /\ s_frames = <<>>
    /\ sent = removed


(***************************************************************************)
(* C9.  None and zero-length packets are filtered out before framing, in   *)
(* Uplinker.uplink and in DtnUplinker.uplink alike: no such packet is ever *)
(* framed, written, given to bp_send or answered with a handshake, and the *)
(* packets that are framed (or given to bp_send) are exactly the other     *)
(* packets receive_all returned, in their order.                           *)
(***************************************************************************)
C9_Filtered ==
    /\ \A i \in DOMAIN uplog :
          /\ uplog[i].ev \in {"frame", "send"} => RealPacket(uplog[i].data)
          /\ uplog[i].ev \in {"write", "warn"} =>
                uplog[i].data \notin { Frame(None), Frame(<<>>) }
          /\ uplog[i].ev = "hand" =>
                uplog[i].data \notin { Descriptor \o None, Descriptor }
    /\ \A k \in DOMAIN packets : RealPacket(packets[k])
    /\ th_uplink = "write" => RealPacket(packet)
    /\ \A k \in DOMAIN ionOut : RealPacket(ionOut[k])
    /\ EventData(uplog, IF cls = "base" THEN "frame" ELSE "send") \o packets
          = SelectSeq(Flatten(recvLog), RealPacket)
    /\ Len(LoopData(accepted)) <= Len(SelectSeq(Flatten(recvLog), RealPacket))

\* one batch held a None or empty packet followed by a real packet; only
\* the real one was framed and written, and it got its handshake
C9_Witness ==
    /\ Len(recvLog) = 1
    /\ Len(recvLog[1]) = 2
    /\ ~RealPacket(recvLog[1][1])
    /\ RealPacket(recvLog[1][2])
    /\ EventData(uplog, "frame") = << recvLog[1][2] >>
    /\ LoopData(accepted) = << Descriptor \o recvLog[1][2] >>

(***************************************************************************)
(* A Downlinker used through its public interface: a caller issues         *)
(* start(), stop() and join() in any order, the wire and the queue stay    *)
(* idle.  grounds and datas hold every thread start() has created;         *)
(* self.th_ground and self.th_data are the last ones.  A thread is its     *)
(* position, whether the pipeline was Stopped when start() created it, and *)
(* whether stop() was called since.                                        *)
(***************************************************************************)
NewThread(fromStopped) ==
    [pc |-> "loop", fromStopped |-> fromStopped, stopped |-> FALSE]

Alive(t) == t.pc # "exited"

AliveIn(ts) == { i \in DOMAIN ts : Alive(ts[i]) }

\* thread.join() of the thread a handle refers to; "if thread is not None"
HandleJoined(ts) == IF Len(ts) = 0 THEN TRUE ELSE ~Alive(ts[Len(ts)])

\* stop() has been called in the life of every thread there is
Stopped(ts) == [i \in 1..Len(ts) |-> [ts[i] EXCEPT !.stopped = TRUE]]

At(ts, i, p) == [ts EXCEPT ![i].pc = p]

\* the pipeline is Stopped: never started, or stopped and joined, and no
\* stage thread is left
IsStopped ==
    /\ phase = "Stopped"
    /\ AliveIn(grounds) = {}
    /\ AliveIn(datas) = {}

lifeFrame == << up_running, th_data, th_ground, th_uplink, main, outgoing,
                accepted, dlVars, sendVars, upVars, dtnVars,
                maxsize, faultLog, afterStop, dropped >>

\* Downlinker.start: two new threads, whatever the state of the pipeline
ApiStart ==
    /\ Len(grounds) < MaxStarts
    /\ grounds' = Append(grounds, NewThread(IsStopped))
    /\ datas' = Append(datas, NewThread(IsStopped))
    /\ phase' = "Running"
    /\ UNCHANGED << dl_running, lifeFrame >>

\* Downlinker.stop: self.running = False
ApiStop ==
    /\ dl_running' = FALSE
    /\ grounds' = Stopped(grounds)
    /\ datas' = Stopped(datas)
    /\ phase' = IF phase = "Running" THEN "Stopping" ELSE phase
    /\ UNCHANGED lifeFrame

\* Downlinker.join returns: th_data and th_ground have ended
ApiJoin ==
    /\ HandleJoined(datas)
    /\ HandleJoined(grounds)
    /\ phase' = IF phase = "Stopping" THEN "Stopped" ELSE phase
    /\ UNCHANGED << dl_running, grounds, datas, lifeFrame >>

\* Downlinker.sending of thread i: while self.running
SendingLoopOf(i) ==
    /\ grounds[i].pc = "loop"
    /\ grounds' = At(grounds, i, IF dl_running THEN "get" ELSE "exited")
    /\ UNCHANGED << dl_running, datas, phase, lifeFrame >>

\* self.outgoing.get(timeout=0.500) on the idle queue: Empty
SendingGetOf(i) ==
    /\ grounds[i].pc = "get"
    /\ GetTimesOut(outgoing)
    /\ grounds' = At(grounds, i, "send")
    /\ UNCHANGED << dl_running, datas, phase, lifeFrame >>

\* self.ground.send_all(frames)
SendingSendOf(i) ==
    /\ grounds[i].pc = "send"
    /\ grounds' = At(grounds, i, "loop")
    /\ UNCHANGED << dl_running, datas, phase, lifeFrame >>

\* Downlinker.deframing of thread i: while self.running
DeframingLoopOf(i) ==
    /\ datas[i].pc = "loop"
    /\ datas' = At(datas, i, IF dl_running THEN "read" ELSE "exited")
    /\ UNCHANGED << dl_running, grounds, phase, lifeFrame >>

\* pool += self.adapter.read() on the idle wire: b"", no frame
DeframingReadOf(i) ==
    /\ datas[i].pc = "read"
    /\ wire = <<>>
    /\ datas' = At(datas, i, "loop")
    /\ UNCHANGED << dl_running, grounds, phase, lifeFrame >>

LifeInit == InitWith("base", 0, 0)

LifeNext ==
    \/ ApiStart
    \/ ApiStop
    \/ ApiJoin
    \/ \E i \in DOMAIN grounds : SendingLoopOf(i)
    \/ \E i \in DOMAIN grounds : SendingGetOf(i)
    \/ \E i \in DOMAIN grounds : SendingSendOf(i)
    \/ \E i \in DOMAIN datas : DeframingLoopOf(i)
    \/ \E i \in DOMAIN datas : DeframingReadOf(i)

LifeSpec == LifeInit /\ [][LifeNext]_vars

(***************************************************************************)
(* C11.  At most one sending thread and at most one deframing thread of a  *)
(* Downlinker is alive at any time, whatever start(), stop() and join()    *)
(* calls are made: a start() on a running pipeline creates no second       *)
(* stage thread.                                                           *)
(***************************************************************************)
C11_SingleConsumer ==
    /\ Cardinality(AliveIn(grounds)) <= 1
    /\ Cardinality(AliveIn(datas)) <= 1


(***************************************************************************)
(* The transport failing.  Adapter.read, Adapter.write, framer.frame,      *)
(* receive_all and send_all may raise OSError at any call.  Uplinker.uplink *)
(* runs inside "try: ... except OSError: if self.running: raise";          *)
(* Downlinker.deframing and Downlinker.sending have no handler.  A thread  *)
(* an exception leaves is at "fault".  Without a signal main() goes        *)
(* through its own joins (uplinker.join(); downlinker.join(); return 0).   *)
(* The raise and the handler's test of the flag are one step.              *)
(***************************************************************************)
Fault(th, at, running, p) ==
    [thread |-> th, at |-> at, running |-> running, packet |-> p]

\* OSError out of receive_all, framer.frame or adapter.write
UplinkOSError ==
    /\ cls = "base"
    /\ th_uplink \in {"receive", "frame", "write"}
    /\ faultLog' = Append(faultLog,
                     Fault("uplink", th_uplink, up_running,
                           IF th_uplink = "write" THEN packet ELSE <<>>))
    /\ th_uplink' = IF Swallowed(up_running) THEN "exited" ELSE "fault"
    /\ UNCHANGED << dl_running, up_running, th_data, th_ground, main >>
    /\ UNCHANGED << dlVars, sendVars, upVars, outgoing, accepted >>
    /\ UNCHANGED << dtnVars, maxsize, afterStop, dropped, lifeVars >>

\* OSError out of self.adapter.read(): nothing in deframing catches it
DeframingOSError ==
    /\ cls = "base"
    /\ th_data = "read"
    /\ faultLog' = Append(faultLog, Fault("deframing", th_data, dl_running, <<>>))
    /\ th_data' = "fault"
    /\ UNCHANGED << dl_running, up_running, th_ground, th_uplink, main >>
    /\ UNCHANGED << dlVars, sendVars, upVars, outgoing, accepted >>
    /\ UNCHANGED << dtnVars, maxsize, afterStop, dropped, lifeVars >>

\* OSError out of self.ground.send_all(frames): nothing in sending catches it
SendingOSError ==
    /\ th_ground = "send"
    /\ faultLog' = Append(faultLog, Fault("sending", th_ground, dl_running, <<>>))
    /\ th_ground' = "fault"
    /\ UNCHANGED << dl_running, up_running, th_data, th_uplink, main >>
    /\ UNCHANGED << dlVars, sendVars, upVars, outgoing, accepted >>
    /\ UNCHANGED << dtnVars, maxsize, afterStop, dropped, lifeVars >>

\* main(): uplinker.join() returns
MainJoinUplinker ==
    /\ cls = "base"
    /\ main = "wait"
    /\ Joined(th_uplink)
    /\ main' = "wait_down"
    /\ UNCHANGED << dl_running, up_running, th_data, th_ground, th_uplink >>
    /\ UNCHANGED << dlVars, sendVars, upVars, outgoing, accepted >>
    /\ UNCHANGED << dtnVars, extVars >>

\* main(): downlinker.join() returns; return 0
MainJoinDownlinker ==
    /\ cls = "base"
    /\ main = "wait_down"
    /\ Joined(th_data)
    /\ Joined(th_ground)
    /\ main' = "returned"
    /\ UNCHANGED << dl_running, up_running, th_data, th_ground, th_uplink >>
    /\ UNCHANGED << dlVars, sendVars, upVars, outgoing, accepted >>
    /\ UNCHANGED << dtnVars, extVars >>

FaultInit == InitWith("base", ShortWire, ShortGround)

FaultNext ==
    \/ Next
    \/ UplinkOSError
    \/ DeframingOSError
    \/ SendingOSError
    \/ MainJoinUplinker
    \/ MainJoinDownlinker

FaultSpec == FaultInit /\ [][FaultNext]_vars

(***************************************************************************)
(* C12.  An OSError raised inside the uplink loop (by receive_all, frame   *)
(* or adapter.write) after stop() was requested is swallowed and the stage *)
(* thread exits normally; raised while no stop was requested it leaves the *)
(* stage and the thread ends with the fault.  Either way no handshake is   *)
(* injected for the packet whose write raised.                             *)
(***************************************************************************)
FaultsOf(th) == { i \in DOMAIN faultLog : faultLog[i].thread = th }

C13_DownlinkSwallows ==
    /\ \A i \in FaultsOf("deframing") :
          ~faultLog[i].running => th_data = "exited"
    /\ \A i \in FaultsOf("sending") :
          ~faultLog[i].running => th_ground = "exited"

(***************************************************************************)
(* C14.  On a termination signal the process calls stop() on both          *)
(* pipelines, then join() on both, and closes the ground channel and the   *)
(* adapter only after both joins have returned: ground.close() and         *)
(* adapter.close() are never performed while a stage thread of either      *)
(* pipeline is still alive.                                                *)
(***************************************************************************)
StageThreads ==
    IF cls = "dtn"
    THEN { th_data, th_ground, th_uplink, th_dtn_deframe, th_dtn_frame }
    ELSE { th_data, th_ground, th_uplink }

UplinkThreads ==
    IF cls = "dtn" THEN { th_uplink, th_dtn_frame } ELSE { th_uplink }

C14_ShutdownOrder ==
    /\ main \in {"join_up", "join_down", "close", "closed"} =>
          ~up_running /\ ~dl_running
    /\ main \in {"join_down", "close", "closed"} =>
          UplinkThreads \subseteq {"exited", "fault"}
    /\ main \in {"close", "closed"} =>
          StageThreads \subseteq {"exited", "fault"}

\* the resources of the process that runs the DTN classes were closed after
\* its five stage threads had ended, and frames had been forwarded before
C14_Witness ==
    /\ main = "closed"
    /\ cls = "dtn"
    /\ StageThreads = {"exited"}
    /\ sent # <<>>

(***************************************************************************)
(* The failing transport under a fair scheduler: the stage threads and the *)
(* main thread keep being scheduled; the signal and the OSErrors are left  *)
(* to the environment.                                                     *)
(***************************************************************************)
FaultMainThread == MainThread \/ MainJoinUplinker \/ MainJoinDownlinker

FaultFairness ==
    /\ WF_vars(DeframingThread)
    /\ WF_vars(SendingThread)
    /\ WF_vars(UplinkThread)
    /\ WF_vars(FaultMainThread)

FaultLiveSpec == FaultInit /\ [][FaultNext]_vars /\ FaultFairness

(***************************************************************************)
(* C15.  When a stage thread ends because of an OSError raised while       *)
(* running, the process notices (its join() returns) and goes on to shut   *)
(* down: it stops the other pipeline and exits, rather than staying        *)
(* blocked with one stage dead and the other pipeline running.  Stated     *)
(* for the uplink stage: once its thread has ended with the fault, main()  *)
(* eventually gets past its joins, through shutdown() or by returning.     *)
(***************************************************************************)
C15_DeathDetected ==
    (th_uplink = "fault") ~> (main \in {"closed", "returned"})

(***************************************************************************)
(* The pipelines with a frame queue of finite capacity, as the             *)
(* specification describes it (Queue(maxsize=Capacity) in place of         *)
(* Queue()): put_nowait raises Full when the queue holds Capacity entries. *)
(***************************************************************************)
OverflowInit == InitOf("base", WireLen, ShortGround, Capacity, NotCounted)

OverflowSpec == OverflowInit /\ [][Next]_vars

C17_Lifecycle ==
    /\ \A i \in DOMAIN grounds :
          (grounds[i].fromStopped /\ ~Alive(grounds[i])) => grounds[i].stopped
    /\ \A i \in DOMAIN datas :
          (datas[i].fromStopped /\ ~Alive(datas[i])) => datas[i].stopped

(***************************************************************************)
(* The DTN classes under a fair scheduler: each of the five stage threads  *)
(* and the main thread takes a step whenever it can.  A thread inside      *)
(* bp_receive or ltp_dequeue_outbound_segment can take a step only when    *)
(* ION has a bundle or a segment for it.                                   *)
(***************************************************************************)
DtnDeframingThread ==
    DtnDeframingLoop \/ DtnDeframingRead \/ DtnDeframingHandle
DtnDeframeThread == DtnDeframeLoop \/ DtnDeframeReceive
DtnUplinkThread == DtnUplinkLoop \/ DtnUplinkReceive \/ DtnUplinkSend
DtnFrameThread == DtnFrameLoop \/ DtnFrameDequeue \/ DtnFrameWrite
DtnMainThread ==
    \/ DtnDownlinkerStart \/ DtnUplinkerStart \/ DownlinkerStop
    \/ DtnUplinkerJoin \/ DtnDownlinkerJoin \/ Close

DtnFairness ==
    /\ WF_vars(DtnDeframingThread)
    /\ WF_vars(SendingThread)
    /\ WF_vars(DtnDeframeThread)
    /\ WF_vars(DtnUplinkThread)
    /\ WF_vars(DtnFrameThread)
    /\ WF_vars(DtnMainThread)

DtnLiveSpec == DtnInit /\ [][DtnNext]_vars /\ DtnFairness

(***************************************************************************)
(* C18.  Stop-responsiveness of DtnDownlinker and DtnUplinker: once stop() *)
(* has been called on both and nothing more arrives, every stage thread,   *)
(* the _dtn_deframe thread waiting in bp_receive and the _dtn_frame thread *)
(* waiting in ltp_dequeue_outbound_segment included, eventually sees the   *)
(* flag and exits, the joins return and shutdown() reaches ground.close()  *)
(* and adapter.close().                                                    *)
(***************************************************************************)
C18_DtnStopResponsive ==
    (main = "join_up") ~> (StageThreads = {"exited"} /\ main = "closed")

(***************************************************************************)
(* The DTN classes with a busy ground side: the runs of DtnSpec, and the   *)
(* runs with a silent wire in which the ground side hands over GroundLen   *)
(* packets.                                                                *)
(***************************************************************************)
DtnGroundInit == DtnInit \/ InitWith("dtn", 0, GroundLen)

DtnGroundSpec == DtnGroundInit /\ [][DtnNext]_vars

(***************************************************************************)
(* C19.  Optimistic handshake of DtnUplinker.uplink: for every non-empty   *)
(* packet, in receive_all order, exactly one handshake frame is pushed to  *)
(* the Downlinker queue right after bp_send returns, whatever becomes of   *)
(* the writes of the _dtn_frame thread, and that thread injects no         *)
(* handshake.  So the calls of the uplink thread are send, handshake,      *)
(* send, handshake, ... over the non-empty packets received, and the       *)
(* handshakes in the queue's history are exactly those.                    *)
(***************************************************************************)
C19_OptimisticHandshake ==
    LET sends == EventData(uplog, "send")
        hands == EventData(uplog, "hand")
    IN  /\ sends \o packets = SelectSeq(Flatten(recvLog), RealPacket)
        /\ Len(uplog) = 2 * Len(sends)
        /\ \A k \in 1..Len(sends) :
              /\ uplog[2 * k - 1] = Event("send", sends[k], TRUE)
              /\ uplog[2 * k] = Event("hand", get_handshake(sends[k]), TRUE)
        /\ hands = [k \in 1..Len(sends) |-> Descriptor \o sends[k]]
        /\ LoopData(accepted) = hands

\* the handshakes of two packets were forwarded to the ground, in order,
\* although every write of the first segment failed and the segment was
\* given up, and the second segment was never written
C19_Witness ==
    /\ cls = "dtn"
    /\ Len(flog) = RETRY_COUNT
    /\ \A i \in DOMAIN flog : ~flog[i].ok
    /\ th_dtn_frame \in {"loop", "dequeue", "exited"}
    /\ Len(ionOut) = 1
    /\ LoopData(sent) = << Descriptor \o DataPacket(1),
                           Descriptor \o DataPacket(2) >>

(***************************************************************************)
(* The base pipelines with the calls made after stop() on record: a run    *)
(* with a frame on the wire and a packet from the ground, or a run with a  *)
(* silent wire and GroundLen packets from the ground.                      *)
(***************************************************************************)
StopInit ==
    \/ InitOf("base", ShortWire, ShortGround, QueueMaxsize, NoCalls)
    \/ InitOf("base", 0, GroundLen, QueueMaxsize, NoCalls)

StopSpec == StopInit /\ [][Next]_vars

(***************************************************************************)
(* C20.  Bounded work after stop: the flag is read only at the top of each *)
(* stage loop, so once stop() has returned each stage finishes at most the *)
(* iteration it is in: the deframing stage makes at most one more          *)
(* Adapter.read, the sending stage at most one more send_all, the uplink   *)
(* stage at most one more receive_all; and the uplink stage still frames,  *)
(* writes (with retries) and handshakes every remaining packet of the      *)
(* batch it has received before it exits.                                  *)
(***************************************************************************)
C20_BoundedWork ==
    /\ afterStop.read <= 1
    /\ afterStop.send <= 1
    /\ afterStop.recv <= 1
    /\ th_uplink = "exited" =>
          /\ packets = <<>>
          /\ EventData(uplog, "frame") = SelectSeq(Flatten(recvLog), RealPacket)
          /\ \A j \in Events("frame") :
                /\ WritesOf(j) # {}
                /\ OkWritesOf(j) # {} \/ Cardinality(WritesOf(j)) = RETRY_COUNT
                /\ Cardinality(HandsOf(j)) = Cardinality(OkWritesOf(j))

\* every stage made one more call after stop(); the receive_all made after
\* stop() returned two packets, and the uplink stage framed, wrote and
\* handshook both before it exited
C20_Witness ==
    /\ afterStop = [on |-> TRUE, read |-> 1, send |-> 1, recv |-> 1, write |-> 2]
    /\ th_uplink = "exited"
    /\ th_data = "exited"
    /\ th_ground = "exited"
    /\ Len(EventData(uplog, "frame")) = 2
    /\ Len(EventData(uplog, "write")) = 2
    /\ Len(EventData(uplog, "hand")) = 2

(***************************************************************************)
(* C21.  Delivery: every frame accepted into the outgoing queue, from the  *)
(* deframing stage or from add_loopback_frame, ends up in a send_all       *)
(* batch, and at the moment the pipeline is Stopped (after stop() and      *)
(* join()) no accepted frame remains in the queue without having been      *)
(* forwarded.  So once both joins of shutdown() have returned the queue is *)
(* empty and everything accepted has been given to send_all.               *)
(***************************************************************************)
C21_Delivery ==
    main \in {"close", "closed"} =>
        /\ outgoing = <<>>
        /\ sent = accepted

====
